---- MODULE Spec2Model ----
(***************************************************************************)
(* find-dups: a model of one run of main() over a directory tree.          *)
(*                                                                         *)
(* Strings that the program takes apart (file names, extensions) are       *)
(* sequences of one-character strings; file contents are sequences of      *)
(* bytes; a dict is the sequence of its [key, files] entries in insertion  *)
(* order, which is the order Python's dict keeps.                          *)
(***************************************************************************)
EXTENDS Integers, Sequences, FiniteSets, TLC

\* ------------------------------------------------------------------ bounds

\* Largest number of regular files in the scanned tree.
MaxFiles == 4

\* Number of distinct digests in the model of MD5: the 128-bit digest is cut
\* down so that distinct contents with one digest occur among short contents.
DigestSpace == 2

\* ------------------------------------------------------------- the inputs

ROOT == "root"
SUBDIR == "root/subdir"

\* The paths a tree is drawn from: a name twice in different directories,
\* one stem with three extensions (one differing only in case), a dot-file.
PathUniverse ==
    { [parent |-> ROOT,   name |-> <<"a", ".", "t">>],
      [parent |-> SUBDIR, name |-> <<"a", ".", "t">>],
      [parent |-> ROOT,   name |-> <<"a", ".", "o">>],
      [parent |-> SUBDIR, name |-> <<"a", ".", "T">>],
      [parent |-> ROOT,   name |-> <<".", "t">>] }

\* File contents: byte strings of one or two bytes.
Contents == { <<1>>, <<2>>, <<3>>, <<1, 2>> }

\* What -e/--extensions was given on the command line (absent, or a list).
ArgExtensions ==
    { [given |-> FALSE, list |-> <<>>],
      [given |-> TRUE,  list |-> << <<"t">> >>],
      [given |-> TRUE,  list |-> << <<".", "o">>, <<"T">> >>] }

\* The trees: every assignment of contents to at most MaxFiles paths.
Trees ==
    UNION { [S -> Contents] :
              S \in { T \in SUBSET PathUniverse : Cardinality(T) <= MaxFiles } }

EmptyTree == [p \in {} |-> <<>>]

\* ------------------------------------------------------- pathlib, hashlib

\* str.rfind: the last position of ch in s, 0 when there is none.
RFind(s, ch) ==
    LET hits == { i \in 1..Len(s) : s[i] = ch }
    IN  IF hits = {} THEN 0 ELSE CHOOSE i \in hits : \A j \in hits : j <= i

\* Path.suffix: the final extension with its dot; "" for a name with no dot,
\* with only a leading dot, or ending in a dot.
Suffix(p) ==
    LET i == RFind(p.name, ".")
    IN  IF 1 < i /\ i < Len(p.name)
        THEN SubSeq(p.name, i, Len(p.name))
        ELSE <<>>

\* Path.stem: the name without its final extension.
Stem(p) ==
    LET i == RFind(p.name, ".")
    IN  IF 1 < i /\ i < Len(p.name)
        THEN SubSeq(p.name, 1, i - 1)
        ELSE p.name

\* Path.name: the final path component.
Name(p) == p.name

\* hashlib.md5 over the whole content (the chunked reads feed the same
\* bytes in the same order): a deterministic function of the content that
\* is not injective.
Md5(data) ==
    LET h[i \in 0..Len(data)] ==
          IF i = 0 THEN 0 ELSE (h[i - 1] + data[i]) % DigestSpace
    IN  h[Len(data)]

\* ------------------------------------------------------------------ dicts

DictKeys(d) == { d[i].key : i \in 1..Len(d) }

\* d[k]
DictGet(d, k) == d[CHOOSE i \in 1..Len(d) : d[i].key = k].files

\* if k not in d: d[k] = []
DictSetDefault(d, k) ==
    IF k \in DictKeys(d) THEN d ELSE Append(d, [key |-> k, files |-> <<>>])

\* d[k].append(f)
DictAppend(d, k, f) ==
    [i \in 1..Len(d) |->
        IF d[i].key = k THEN [d[i] EXCEPT !.files = Append(@, f)] ELSE d[i]]

\* ---------------------------------------------------------- state

VARIABLES
    pc,                 \* where main() is
    pathKind,           \* what the directory argument names on disk
    tree,               \* the regular files under the root, with contents
    args,               \* the parsed -e option
    extensions,         \* main's extensions: [given, list]
    files,              \* find_potential_duplicates: files
    size_dict,          \* get_files_by_size(files)
    by_size_dups_dict,
    hash_dict,          \* get_files_by_hash(by_size_dups_dict)
    by_md5_dups_dict,
    name_dict,          \* get_files_by_name(files)
    by_name_dups_dict,
    stem_dict,          \* get_files_by_stem_diff_suffix(files)
    by_stem_dups_dict,
    duplicates,         \* the returned dict, as its sequence of items
    stdout,             \* what was printed, one element per print()
    exit_code           \* -1 while the process runs

vars == << pc, pathKind, tree, args, extensions, files, size_dict,
           by_size_dups_dict, hash_dict, by_md5_dups_dict, name_dict,
           by_name_dups_dict, stem_dict, by_stem_dups_dict, duplicates,
           stdout, exit_code >>

scanVars == << files, size_dict, by_size_dups_dict, hash_dict,
               by_md5_dups_dict, name_dict, by_name_dups_dict, stem_dict,
               by_stem_dups_dict, duplicates >>

\* ------------------------------------------------- file_dict_utils.py

\* file.stat().st_size
StatSize(t, f) == Len(t[f])

\* Size grouping that starts a new list with the file in it and appends the
\* file all the same: size_dict[size] = [file]; size_dict[size].append(file).
get_files_by_size_appending_twice(t, fs) ==
    LET size_d[i \in 0..Len(fs)] ==
          IF i = 0 THEN <<>>
          ELSE LET file == fs[i]
                   size == StatSize(t, file)
                   d0 == size_d[i - 1]
                   d1 == IF size \in DictKeys(d0) THEN d0
                         ELSE Append(d0, [key |-> size, files |-> << file >>])
               IN  DictAppend(d1, size, file)
    IN  size_d[Len(fs)]

\* Size grouping that assigns instead of appending: size_dict[size] = [file].
get_files_by_size_overwriting(t, fs) ==
    LET size_d[i \in 0..Len(fs)] ==
          IF i = 0 THEN <<>>
          ELSE LET file == fs[i]
                   size == StatSize(t, file)
                   d1 == DictSetDefault(size_d[i - 1], size)
               IN  [k \in 1..Len(d1) |->
                      IF d1[k].key = size
                      THEN [d1[k] EXCEPT !.files = << file >>] ELSE d1[k]]
    IN  size_d[Len(fs)]

\* The loop of get_files_by_size over files, run on tree t.
get_files_by_size(t, fs) ==
    LET size_d[i \in 0..Len(fs)] ==
          IF i = 0 THEN <<>>
          ELSE LET file == fs[i]
                   size == StatSize(t, file)
               IN  DictAppend(DictSetDefault(size_d[i - 1], size), size, file)
    IN  size_d[Len(fs)]

\* Pruning with the comparison off by one: len(files) > 0.
prune_keeps_singletons(files_dict) ==
    SelectSeq(files_dict, LAMBDA e : Len(e.files) > 0)

\* {metric: files for metric, files in files_dict.items() if len(files) > 1}
prune_non_duplicates(files_dict) ==
    SelectSeq(files_dict, LAMBDA e : Len(e.files) > 1)

\* The files get_files_by_hash visits: for files in d.values(): for file in files
HashVisitOrder(d) ==
    LET flat[i \in 0..Len(d)] ==
          IF i = 0 THEN <<>> ELSE flat[i - 1] \o d[i].files
    IN  flat[Len(d)]

\* Hash grouping that starts the list afresh for every file:
\* hash_dict[file_hash] = [] without the membership test.
get_files_by_hash_resetting(t, files_by_size_dict) ==
    LET visit == HashVisitOrder(files_by_size_dict)
        hash_d[i \in 0..Len(visit)] ==
          IF i = 0 THEN <<>>
          ELSE LET file == visit[i]
                   file_hash == Md5(t[file])
                   d1 == DictSetDefault(hash_d[i - 1], file_hash)
               IN  [k \in 1..Len(d1) |->
                      IF d1[k].key = file_hash
                      THEN [d1[k] EXCEPT !.files = << file >>] ELSE d1[k]]
    IN  hash_d[Len(visit)]

\* get_files_by_hash: one hash_dict over the files of all the given groups.
get_files_by_hash(t, files_by_size_dict) ==
    LET visit == HashVisitOrder(files_by_size_dict)
        hash_d[i \in 0..Len(visit)] ==
          IF i = 0 THEN <<>>
          ELSE LET file == visit[i]
                   file_hash == Md5(t[file])
               IN  DictAppend(DictSetDefault(hash_d[i - 1], file_hash),
                              file_hash, file)
    IN  hash_d[Len(visit)]

\* Name grouping keyed by file.stem instead of file.name.
get_files_by_name_keyed_by_stem(fs) ==
    LET name_d[i \in 0..Len(fs)] ==
          IF i = 0 THEN <<>>
          ELSE LET file == fs[i]
                   name == Stem(file)
               IN  DictAppend(DictSetDefault(name_d[i - 1], name), name, file)
    IN  name_d[Len(fs)]

get_files_by_name(fs) ==
    LET name_d[i \in 0..Len(fs)] ==
          IF i = 0 THEN <<>>
          ELSE LET file == fs[i]
                   name == Name(file)
               IN  DictAppend(DictSetDefault(name_d[i - 1], name), name, file)
    IN  name_d[Len(fs)]

\* Stem grouping without the test on the extensions already in the group.
get_files_by_stem_any_suffix(fs) ==
    LET stem_d[i \in 0..Len(fs)] ==
          IF i = 0 THEN <<>>
          ELSE LET file == fs[i]
                   stem == Stem(file)
               IN  DictAppend(DictSetDefault(stem_d[i - 1], stem), stem, file)
    IN  stem_d[Len(fs)]

get_files_by_stem_diff_suffix(fs) ==
    LET stem_d[i \in 0..Len(fs)] ==
          IF i = 0 THEN <<>>
          ELSE LET file == fs[i]
                   stem == Stem(file)
                   d1   == DictSetDefault(stem_d[i - 1], stem)
                   grp  == DictGet(d1, stem)
                   suffixes == { Suffix(grp[j]) : j \in 1..Len(grp) }
               IN  IF Suffix(file) \notin suffixes
                   THEN DictAppend(d1, stem, file)
                   ELSE d1
    IN  stem_d[Len(fs)]

\* --------------------------------------------------------- validation.py

\* ext if ext.startswith(".") else f".{ext}"
NormalizeOne(ext) ==
    IF Len(ext) > 0 /\ ext[1] = "." THEN ext ELSE <<".">> \o ext

normalize_extensions(exts) == [i \in 1..Len(exts) |-> NormalizeOne(exts[i])]

\* ---------------------------------------------------------- fileutils.py

SAME_SIZE_AND_HASH == "same size and hash"
SAME_NAME == "same name"
SAME_STEM_DIFF_SUFFIX == "same stem different suffix"

\* DupFileReasonEnum, in definition order.
DupFileReasonEnum == << SAME_SIZE_AND_HASH, SAME_NAME, SAME_STEM_DIFF_SUFFIX >>

\* f.suffix in extensions
InList(x, list) == \E i \in 1..Len(list) : list[i] = x

\* All orderings of the set S.
RECURSIVE Orderings(_)
Orderings(S) ==
    IF S = {} THEN { <<>> }
    ELSE UNION { { <<x>> \o rest : rest \in Orderings(S \ {x}) } : x \in S }

\* directory.rglob("*"): every entry under the root once, in an order the
\* program does not control; the subdirectory itself is an entry, placed
\* ahead of the files.
RGlob(t) ==
    LET dirs == IF \E p \in DOMAIN t : p.parent = SUBDIR
                THEN << [path |-> [parent |-> ROOT, name |-> <<"s", "u", "b", "d", "i", "r">>],
                         is_file |-> FALSE] >>
                ELSE <<>>
    IN  { dirs \o [i \in 1..Len(w) |-> [path |-> w[i], is_file |-> TRUE]] :
            w \in Orderings(DOMAIN t) }

\* str.lower on one character of the alphabet of the names.
LowerChar(c) == CASE c = "T" -> "t" [] c = "O" -> "o" [] OTHER -> c

LowerStr(s) == [i \in 1..Len(s) |-> LowerChar(s[i])]

\* get_files comparing extensions without regard to case.
get_files_ignoring_case(walk, exts) ==
    LET kept == SelectSeq(walk,
                  LAMBDA e : e.is_file
                             /\ (~exts.given
                                 \/ \E i \in 1..Len(exts.list) :
                                      LowerStr(exts.list[i]) = LowerStr(Suffix(e.path))))
    IN  [i \in 1..Len(kept) |-> kept[i].path]

\* The comprehension of get_files over one walk of the tree.
get_files(walk, exts) ==
    LET kept == SelectSeq(walk,
                  LAMBDA e : e.is_file
                             /\ (~exts.given \/ InList(Suffix(e.path), exts.list)))
    IN  [i \in 1..Len(kept) |-> kept[i].path]

\* A result that leaves out the reasons that found nothing.
ResultDict_omitting_empty(md5, name, stem) ==
    SelectSeq(<< [reason |-> SAME_SIZE_AND_HASH,    groups |-> md5],
                 [reason |-> SAME_NAME,             groups |-> name],
                 [reason |-> SAME_STEM_DIFF_SUFFIX, groups |-> stem] >>,
              LAMBDA item : item.groups # <<>>)

\* The dict find_potential_duplicates returns, as its items in order.
ResultDict(md5, name, stem) ==
    << [reason |-> SAME_SIZE_AND_HASH,    groups |-> md5],
       [reason |-> SAME_NAME,             groups |-> name],
       [reason |-> SAME_STEM_DIFF_SUFFIX, groups |-> stem] >>

\* ------------------------------------------------------------- report.py

\* Text is a sequence of string pieces; NL is the newline character.
NL == "\n"

\* str(path)
PathStr(p) == << p.parent, "/" >> \o p.name

\* "\n".join(lines)
JoinLines(lines) ==
    LET j[i \in 0..Len(lines)] ==
          IF i = 0 THEN <<>>
          ELSE IF i = 1 THEN lines[1]
          ELSE j[i - 1] \o << NL >> \o lines[i]
    IN  j[Len(lines)]

\* The inner loop: the lines of the groups of one reason.
GroupsLines(files_dict) ==
    LET g[i \in 0..Len(files_dict)] ==
          IF i = 0 THEN <<>>
          ELSE LET fs == files_dict[i].files
               IN  g[i - 1]
                   \o [k \in 1..Len(fs) |-> << "    - " >> \o PathStr(fs[k])]
                   \o << <<>> >>
    IN  g[Len(files_dict)]

\* The no-duplicates line without its trailing newline.
ReasonLines_no_newline(item) ==
    << << "Reason: ", item.reason >> >>
    \o (IF item.groups = <<>>
        THEN << << "    No potential duplicates found." >> >>
        ELSE GroupsLines(item.groups) \o << <<>> >>)

\* One pass of the outer loop: what one reason adds to report_lines.
ReasonLines(item) ==
    << << "Reason: ", item.reason >> >>
    \o (IF item.groups = <<>>
        THEN << << "    No potential duplicates found.", NL >> >>
        ELSE GroupsLines(item.groups) \o << <<>> >>)

format_duplicate_report(dups) ==
    LET report_lines[i \in 0..Len(dups)] ==
          IF i = 0 THEN <<>> ELSE report_lines[i - 1] \o ReasonLines(dups[i])
    IN  JoinLines(report_lines[Len(dups)])

\* --------------------------------------------------------------- main.py

Init ==
    /\ pc = "start"
    /\ pathKind \in { "missing", "file", "dir" }
    /\ tree \in (IF pathKind = "dir" THEN Trees ELSE { EmptyTree })
    /\ args \in ArgExtensions
    /\ extensions = [given |-> FALSE, list |-> <<>>]
    /\ files = <<>>
    /\ size_dict = <<>>
    /\ by_size_dups_dict = <<>>
    /\ hash_dict = <<>>
    /\ by_md5_dups_dict = <<>>
    /\ name_dict = <<>>
    /\ by_name_dups_dict = <<>>
    /\ stem_dict = <<>>
    /\ by_stem_dups_dict = <<>>
    /\ duplicates = <<>>
    /\ stdout = <<>>
    /\ exit_code = -1

\* args = parser.parse_args(); extensions = normalize_extensions(...) or None
ParseArgs ==
    /\ pc = "start"
    /\ extensions' = IF args.given /\ args.list # <<>>
                     THEN [given |-> TRUE, list |-> normalize_extensions(args.list)]
                     ELSE [given |-> FALSE, list |-> <<>>]
    /\ pc' = "validate"
    /\ UNCHANGED << pathKind, tree, args, scanVars, stdout, exit_code >>

\* fail_if_invalid without the is_dir test: any existing path passes.
fail_if_invalid_exists_only ==
    /\ pc = "validate"
    /\ IF pathKind = "missing"
       THEN /\ stdout' = Append(stdout,
                    << "The directory '", ROOT, "' does not exist." >>)
            /\ exit_code' = 1
            /\ pc' = "exited"
       ELSE /\ pc' = "scan"
            /\ UNCHANGED << stdout, exit_code >>
    /\ UNCHANGED << pathKind, tree, args, extensions, scanVars >>

\* fail_if_invalid(directory)
fail_if_invalid ==
    /\ pc = "validate"
    /\ IF pathKind = "missing"
       THEN /\ stdout' = Append(stdout,
                    << "The directory '", ROOT, "' does not exist." >>)
            /\ exit_code' = 1
            /\ pc' = "exited"
       ELSE IF pathKind # "dir"
       THEN /\ stdout' = Append(stdout,
                    << "The path '", ROOT, "' is not a valid directory." >>)
            /\ exit_code' = 1
            /\ pc' = "exited"
       ELSE /\ pc' = "scan"
            /\ UNCHANGED << stdout, exit_code >>
    /\ UNCHANGED << pathKind, tree, args, extensions, scanVars >>

\* duplicates = find_potential_duplicates(directory, extensions).  Each
\* local is bound once, in the order of the assignments of the function.
find_potential_duplicates ==
    /\ pc = "scan"
    /\ \E walk \in RGlob(tree) :
       \E fs \in { get_files(walk, extensions) } :
       \E by_size \in { get_files_by_size(tree, fs) } :
       \E size_dup \in { prune_non_duplicates(by_size) } :
       \E by_hash \in { get_files_by_hash(tree, size_dup) } :
       \E md5_dup \in { prune_non_duplicates(by_hash) } :
       \E by_name \in { get_files_by_name(fs) } :
       \E name_dup \in { prune_non_duplicates(by_name) } :
       \E by_stem \in { get_files_by_stem_diff_suffix(fs) } :
       \E stem_dup \in { prune_non_duplicates(by_stem) } :
         /\ files' = fs
         /\ size_dict' = by_size
         /\ by_size_dups_dict' = size_dup
         /\ hash_dict' = by_hash
         /\ by_md5_dups_dict' = md5_dup
         /\ name_dict' = by_name
         /\ by_name_dups_dict' = name_dup
         /\ stem_dict' = by_stem
         /\ by_stem_dups_dict' = stem_dup
         /\ duplicates' = ResultDict(md5_dup, name_dup, stem_dup)
    /\ pc' = "report"
    /\ UNCHANGED << pathKind, tree, args, extensions, stdout, exit_code >>

\* print(format_duplicate_report(duplicates)), and main returns
PrintReport ==
    /\ pc = "report"
    /\ stdout' = Append(stdout, format_duplicate_report(duplicates))
    /\ exit_code' = 0
    /\ pc' = "done"
    /\ UNCHANGED << pathKind, tree, args, extensions, scanVars >>

Next ==
    \/ ParseArgs
    \/ fail_if_invalid
    \/ find_potential_duplicates
    \/ PrintReport

Spec == Init /\ [][Next]_vars

\* ================================================================ claims

Range(seq) == { seq[i] : i \in 1..Len(seq) }

\* find_potential_duplicates has returned.
Scanned == pc \in { "report", "done" }

\* The mapping duplicates holds for a reason.
GroupsOf(reason) ==
    duplicates[CHOOSE i \in 1..Len(duplicates) : duplicates[i].reason = reason].groups

\* The four grouping passes with what pruning made of each.
Passes ==
    << << size_dict, by_size_dups_dict >>, << hash_dict, by_md5_dups_dict >>,
       << name_dict, by_name_dups_dict >>, << stem_dict, by_stem_dups_dict >> >>

\* C1: every group of the three returned mappings has two files or more,
\* and pruning keeps exactly the keys that had two files or more, with
\* their lists as they were.
C1_PrunedGroupsHaveTwo ==
    Scanned =>
      /\ \A i \in 1..Len(duplicates) :
           \A k \in 1..Len(duplicates[i].groups) :
             Len(duplicates[i].groups[k].files) >= 2
      /\ \A n \in 1..Len(Passes) :
         LET pass == Passes[n] IN
           /\ DictKeys(pass[2])
                = { k \in DictKeys(pass[1]) : Len(DictGet(pass[1], k)) >= 2 }
           /\ \A k \in DictKeys(pass[2]) : DictGet(pass[2], k) = DictGet(pass[1], k)
           /\ Len(pass[2]) = Cardinality(DictKeys(pass[2]))

\* A pass that produced a singleton group next to a group of two.
C1_Witness ==
    /\ Scanned
    /\ \E n \in 1..Len(Passes) :
         LET pass == Passes[n] IN
         /\ \E k \in DictKeys(pass[1]) : Len(DictGet(pass[1], k)) = 1
         /\ \E k \in DictKeys(pass[1]) : Len(DictGet(pass[1], k)) >= 2

\* C2: two distinct listed files with the same content (hence the same
\* size) are together in one group of SAME_SIZE_AND_HASH, and in no other.
C2_SameContentGroupedOnce ==
    Scanned =>
      \A f, g \in Range(files) :
        (f # g /\ tree[f] = tree[g]) =>
          LET md5 == GroupsOf(SAME_SIZE_AND_HASH)
          IN  \E i \in 1..Len(md5) :
                /\ { f, g } \subseteq Range(md5[i].files)
                /\ \A j \in 1..Len(md5) :
                     j # i => { f, g } \cap Range(md5[j].files) = {}

\* Two listed files with one content, beside a file of another content.
C2_Witness ==
    /\ Scanned
    /\ \E f, g, h \in Range(files) :
         f # g /\ tree[f] = tree[g] /\ tree[h] # tree[f]

\* The member sets of the groups of a mapping.
GroupSets(d) == { Range(d[i].files) : i \in 1..Len(d) }

\* Hash grouping without the size pass: every listed file is hashed, the
\* whole list handed to get_files_by_hash as one group, then pruned.
HashEveryFile ==
    prune_non_duplicates(get_files_by_hash(tree, << [key |-> 0, files |-> files] >>))

\* No two listed files of different sizes have the same digest.
DigestDeterminesSize ==
    \A f, g \in Range(files) :
      Md5(tree[f]) = Md5(tree[g]) => StatSize(tree, f) = StatSize(tree, g)

\* Every group of the mapping d is part of the group of e under the same key.
IsRefinedBy(d, e) ==
    \A i \in 1..Len(d) :
      \E j \in 1..Len(e) :
        e[j].key = d[i].key /\ Range(d[i].files) \subseteq Range(e[j].files)

\* d refines e, and has the groups of e when digests determine sizes.
RefinesAndAgrees(d, e) ==
    /\ IsRefinedBy(d, e)
    /\ DigestDeterminesSize => GroupSets(d) = GroupSets(e)

\* C3 as stated: hashing only the pruned size groups gives the same groups
\* as hashing every file.
C3_Original_SizeFilterIsPureOptimization ==
    Scanned => GroupSets(by_md5_dups_dict) = GroupSets(HashEveryFile)

\* C3, amended: every group found behind the size filter is part of the
\* group hashing every file gives for the same digest, and the two results
\* have the same groups whenever no two listed files of different sizes
\* share a digest.
C3_SizeFilterRefinesHashEveryFile ==
    Scanned => RefinesAndAgrees(by_md5_dups_dict, HashEveryFile)

\* The size pass dropped a file, a content group survived, and no digest
\* is shared across sizes.
C3_Witness ==
    /\ Scanned
    /\ DigestDeterminesSize
    /\ by_md5_dups_dict # <<>>
    /\ Len(by_size_dups_dict) < Len(size_dict)

\* The files of fs, in order, that have stem s and whose extension no
\* earlier file of fs with stem s has.
FirstOfEachExtension(fs, s) ==
    LET keep(i) == /\ Stem(fs[i]) = s
                   /\ \A j \in 1..(i - 1) :
                        ~(Stem(fs[j]) = s /\ Suffix(fs[j]) = Suffix(fs[i]))
        r[i \in 0..Len(fs)] ==
          IF i = 0 THEN <<>>
          ELSE IF keep(i) THEN Append(r[i - 1], fs[i]) ELSE r[i - 1]
    IN  r[Len(fs)]

\* C4: in every stem group no two members have the same extension; the
\* group is, in list order, the first file of each distinct extension that
\* occurs with the stem; and a stem is a key of SAME_STEM_DIFF_SUFFIX iff
\* files with that stem occur with at least two distinct extensions.
C4_StemGroupsFirstOfEachExtension ==
    Scanned =>
      /\ DictKeys(stem_dict) = { Stem(f) : f \in Range(files) }
      /\ \A i \in 1..Len(stem_dict) :
           LET grp == stem_dict[i].files
           IN  /\ \A a, b \in 1..Len(grp) :
                    a # b => Suffix(grp[a]) # Suffix(grp[b])
               /\ grp = FirstOfEachExtension(files, stem_dict[i].key)
      /\ DictKeys(GroupsOf(SAME_STEM_DIFF_SUFFIX))
           = { s \in { Stem(f) : f \in Range(files) } :
                 Cardinality({ Suffix(f) : f \in { g \in Range(files) : Stem(g) = s } }) >= 2 }
      /\ \A k \in DictKeys(GroupsOf(SAME_STEM_DIFF_SUFFIX)) :
           DictGet(GroupsOf(SAME_STEM_DIFF_SUFFIX), k) = FirstOfEachExtension(files, k)

\* A stem listed with one extension twice and with another extension.
C4_Witness ==
    /\ Scanned
    /\ \E f, g, h \in Range(files) :
         /\ f # g /\ Stem(f) = Stem(g) /\ Stem(g) = Stem(h)
         /\ Suffix(f) = Suffix(g) /\ Suffix(h) # Suffix(f)
    /\ GroupsOf(SAME_STEM_DIFF_SUFFIX) # <<>>

\* C5: SAME_NAME has the key n iff two or more listed files have the final
\* path component n, whatever their directories, and the group under n is
\* all the listed files of that name in list order.
C5_NameGroupsAllFilesOfName ==
    Scanned =>
      LET by_name == GroupsOf(SAME_NAME)
      IN  /\ DictKeys(by_name)
               = { n \in { f.name : f \in Range(files) } :
                     Cardinality({ f \in Range(files) : f.name = n }) >= 2 }
          /\ \A n \in DictKeys(by_name) :
               DictGet(by_name, n) = SelectSeq(files, LAMBDA f : f.name = n)
          /\ Len(by_name) = Cardinality(DictKeys(by_name))

\* A name listed in two directories, beside a file of another name.
C5_Witness ==
    /\ Scanned
    /\ \E f, g, h \in Range(files) :
         f.name = g.name /\ f.parent # g.parent /\ h.name # f.name
    /\ GroupsOf(SAME_NAME) # <<>>

\* The eight mappings of a scan: each pass unpruned and pruned.
Mappings ==
    << size_dict, by_size_dups_dict, hash_dict, by_md5_dups_dict,
       name_dict, by_name_dups_dict, stem_dict, by_stem_dups_dict >>

\* Every file that is in some group of the mapping d.
Members(d) == UNION { Range(d[i].files) : i \in 1..Len(d) }

\* C6: with an extension filter, the file list is exactly the files of the
\* tree whose final extension is, character for character, in the filter;
\* every mapping of every pass, and so every group of the three reasons,
\* holds files of that list only.
C6_FilterBoundsEveryGroup ==
    (Scanned /\ extensions.given) =>
      /\ \A f \in Range(files) : Suffix(f) \in Range(extensions.list)
      /\ Range(files)
           = { p \in DOMAIN tree : Suffix(p) \in Range(extensions.list) }
      /\ \A n \in 1..Len(Mappings) : Members(Mappings[n]) \subseteq Range(files)
      /\ \A i \in 1..Len(duplicates) :
           \A f \in Members(duplicates[i].groups) :
             Suffix(f) \in Range(extensions.list)

\* A filtered scan that reports a group while the tree holds a file of the
\* same stem whose extension is not in the filter.
C6_Witness ==
    /\ Scanned
    /\ extensions.given
    /\ \E p \in DOMAIN tree, f \in Range(files) :
         p \notin Range(files) /\ Stem(p) = Stem(f)
    /\ \E i \in 1..Len(duplicates) : duplicates[i].groups # <<>>

\* The places (group, position) at which file f stands in the mapping d.
Places(d, f) ==
    UNION { { << i, k >> : k \in { x \in 1..Len(d[i].files) : d[i].files[x] = f } } :
              i \in 1..Len(d) }

\* C7: the file list has no repeated path, and in the mapping of each pass,
\* unpruned and pruned, a file stands at one place at most: not under two
\* keys, not twice in one list; keys are not repeated either.
C7_FileInOneGroupOnce ==
    Scanned =>
      /\ \A a, b \in 1..Len(files) : a # b => files[a] # files[b]
      /\ \A n \in 1..Len(Mappings) :
           /\ \A f \in Range(files) : Cardinality(Places(Mappings[n], f)) <= 1
           /\ \A a, b \in 1..Len(Mappings[n]) :
                a # b => Mappings[n][a].key # Mappings[n][b].key

\* Every pass made two groups or more, and a group of two files exists.
C7_Witness ==
    /\ Scanned
    /\ Len(size_dict) >= 2 /\ Len(hash_dict) >= 2
    /\ Len(name_dict) >= 2 /\ Len(stem_dict) >= 2
    /\ \E i \in 1..Len(stem_dict) : Len(stem_dict[i].files) >= 2

\* The reasons of duplicates, in the order of its items.
ReasonsOf(dups) == [i \in 1..Len(dups) |-> dups[i].reason]

AllReasonsEmpty == \A i \in 1..Len(duplicates) : duplicates[i].groups = <<>>

\* No two listed files have the same name or one stem with two extensions.
NoSharedNameOrStem ==
    \A f, g \in Range(files) :
      f # g => /\ f.name # g.name
               /\ ~(Stem(f) = Stem(g) /\ Suffix(f) # Suffix(g))

\* C8 as stated: the result has exactly the three reasons as keys, and all
\* three map to the empty mapping when no two listed files share content,
\* name, or stem with different extensions (an empty list included).
C8_Original_NoSharedContentMeansEmpty ==
    Scanned =>
      /\ ReasonsOf(duplicates) = DupFileReasonEnum
      /\ ( /\ NoSharedNameOrStem
           /\ \A f, g \in Range(files) : f # g => tree[f] # tree[g] )
         => AllReasonsEmpty

\* C8, amended: the result has exactly the three reasons as keys, and all
\* three map to the empty mapping when no two listed files share content
\* digest, name, or stem with different extensions (an empty list included).
C8_ThreeKeysAndEmptyWithoutSharedDigest ==
    Scanned =>
      /\ ReasonsOf(duplicates) = DupFileReasonEnum
      /\ ( /\ NoSharedNameOrStem
           /\ \A f, g \in Range(files) : f # g => Md5(tree[f]) # Md5(tree[g]) )
         => AllReasonsEmpty

\* Two files are listed, nothing is shared, and every reason is empty.
C8_Witness ==
    /\ Scanned
    /\ Len(files) >= 2
    /\ NoSharedNameOrStem
    /\ \A f, g \in Range(files) : f # g => Md5(tree[f]) # Md5(tree[g])
    /\ ReasonsOf(duplicates) = DupFileReasonEnum
    /\ AllReasonsEmpty

\* What the scan leaves untouched.
NothingScanned ==
    /\ files = <<>> /\ duplicates = <<>>
    /\ \A n \in 1..Len(Mappings) : Mappings[n] = <<>>

\* The step main takes next can be taken.
CanGoOn ==
    /\ pc = "start" => ENABLED ParseArgs
    /\ pc = "validate" => ENABLED fail_if_invalid
    /\ pc = "scan" => RGlob(tree) # {}      \* the scan has a walk to take
    /\ pc = "report" => ENABLED PrintReport

C9_Safety ==
    /\ pathKind # "dir" =>
         /\ pc \in { "start", "validate", "exited" }
         /\ NothingScanned
         /\ \A i \in 1..Len(stdout) : stdout[i][1] # "Reason: "
    /\ pc = "exited" =>
         /\ pathKind # "dir" /\ exit_code = 1 /\ Len(stdout) = 1
         /\ stdout[1] = IF pathKind = "missing"
                        THEN << "The directory '", ROOT, "' does not exist." >>
                        ELSE << "The path '", ROOT, "' is not a valid directory." >>
    /\ exit_code = 1 => pc = "exited"
    /\ pathKind = "dir" => pc # "exited" /\ exit_code \in { -1, 0 }
    /\ pc = "done" =>
         /\ pathKind = "dir" /\ exit_code = 0 /\ Scanned
         /\ stdout = << format_duplicate_report(duplicates) >>
    /\ CanGoOn

\* C9: a path that is missing or not a directory ends the run with exit
\* code 1 before anything is enumerated, grouped, hashed or reported, and
\* nothing happens after the exit; for a directory fail_if_invalid returns
\* without printing or exiting, and each step up to the printing of the
\* report can then be taken.
C9_ValidationPrecedesScanning ==
    /\ []C9_Safety
    /\ [][(pc = "validate" /\ pathKind = "dir")
            => (pc' = "scan" /\ UNCHANGED << stdout, exit_code >>)]_vars
    /\ [][(pc = "validate" /\ pathKind # "dir")
            => (pc' = "exited" /\ exit_code' = 1)]_vars
    /\ [][pc = "exited" => UNCHANGED vars]_vars

\* The run on a path that exists and is no directory has ended.
C9_Witness ==
    /\ pc = "exited"
    /\ pathKind = "file"
    /\ exit_code = 1
    /\ NothingScanned

\* One character of str.split("\n"): a newline opens a line, anything else
\* goes to the end of the line that is open.
SplitStep(lines, ch) ==
    IF ch = NL THEN Append(lines, <<>>)
    ELSE [lines EXCEPT ![Len(lines)] = Append(@, ch)]

\* str.split("\n"): the lines of a text, the pieces between its newlines.
SplitLines(text) ==
    LET r[i \in 0..Len(text)] ==
          IF i = 0 THEN << <<>> >> ELSE SplitStep(r[i - 1], text[i])
    IN  r[Len(text)]

\* The lines the claim gives one reason: the header; then either the
\* no-duplicates line and a blank line, or per group its file lines and a
\* blank line, and one more blank line after the last group.
ExpectedReasonLines(reason, groups) ==
    LET body[i \in 0..Len(groups)] ==
          IF i = 0 THEN <<>>
          ELSE body[i - 1]
               \o [k \in 1..Len(groups[i].files) |->
                     << "    - " >> \o PathStr(groups[i].files[k])]
               \o << <<>> >>
    IN  << << "Reason: ", reason >> >>
        \o (IF Len(groups) = 0
            THEN << << "    No potential duplicates found." >>, <<>> >>
            ELSE body[Len(groups)] \o << <<>> >>)

\* C10: the printed report, read line by line, is the three reasons' lines
\* in the fixed order same size and hash, same name, same stem different
\* suffix, each as ExpectedReasonLines gives them.
C10_ReportLines ==
    pc = "done" =>
      SplitLines(stdout[Len(stdout)])
        = ExpectedReasonLines("same size and hash", GroupsOf(SAME_SIZE_AND_HASH))
          \o ExpectedReasonLines("same name", GroupsOf(SAME_NAME))
          \o ExpectedReasonLines("same stem different suffix",
                                 GroupsOf(SAME_STEM_DIFF_SUFFIX))

\* A printed report with a reason that found nothing and a reason that
\* found two groups.
C10_Witness ==
    /\ pc = "done"
    /\ \E i \in 1..Len(duplicates) : duplicates[i].groups = <<>>
    /\ \E i \in 1..Len(duplicates) : Len(duplicates[i].groups) >= 2

\* All the files of the group have one size and one digest.
OneSizeOneDigest(grp) ==
    \A a, b \in 1..Len(grp) :
      /\ StatSize(tree, grp[a]) = StatSize(tree, grp[b])
      /\ Md5(tree[grp[a]]) = Md5(tree[grp[b]])

\* C11: whatever sizes and digests the files have, two files of different
\* sizes with one digest included, every group of SAME_SIZE_AND_HASH holds
\* files of one size and one digest, and get_files_by_hash puts no files of
\* two different size groups into one group.
C11_GroupsHaveOneSizeAndOneDigest ==
    Scanned =>
      /\ \A i \in 1..Len(GroupsOf(SAME_SIZE_AND_HASH)) :
           OneSizeOneDigest(GroupsOf(SAME_SIZE_AND_HASH)[i].files)
      /\ \A i \in 1..Len(hash_dict) : OneSizeOneDigest(hash_dict[i].files)

====
